---- MODULE Spec2Model ----
(***************************************************************************)
(* Player state and payment resolution of lib/src/player.rs.               *)
(*                                                                         *)
(* Tokens, Cost, Card and GemType live in modules of the crate that are    *)
(* not part of the sources at hand (token.rs, card.rs, gem_type.rs); they  *)
(* are modelled from the specification and from the way player.rs uses     *)
(* them.                                                                   *)
(***************************************************************************)
EXTENDS Integers, Sequences, FiniteSets, TLC

\* ------------------------------------------------------------------ bounds
\* largest total of a card's raw cost drawn as an input of the payment query
MaxCost == 3
\* largest total of the gems drawn as an input of the payment query
MaxGems == 4
\* largest development count (in one colour) drawn as an input of the query
MaxDev == 1

\* ---------------------------------------------------------------- GemType
Gold == "Gold"
\* the five standard colours
Colors == {"Onyx", "Sapphire", "Emerald", "Ruby", "Diamond"}
\* GemType::all(): every member of the enumeration, the wildcard included
GemTypeAll == Colors \cup {Gold}

\* ----------------------------------------------------------------- Tokens
\* Tokens::empty()
Empty == [c \in GemTypeAll |-> 0]
\* Tokens::one(color)
One(color) == [c \in GemTypeAll |-> IF c = color THEN 1 ELSE 0]
\* Tokens + Tokens, elementwise
Add(a, b) == [c \in GemTypeAll |-> a[c] + b[c]]
\* Tokens - Tokens, elementwise; a counter may become negative
Sub(a, b) == [c \in GemTypeAll |-> a[c] - b[c]]
\* Tokens::total()
Total(t) ==
    t["Onyx"] + t["Sapphire"] + t["Emerald"] + t["Ruby"] + t["Diamond"] + t[Gold]
\* Tokens::legal(): every counter is >= 0
Legal(t) == \A c \in GemTypeAll : t[c] >= 0

\* A token vector from its six counters.
Mk(o, s, e, r, d, g) ==
    [c \in GemTypeAll |->
        CASE c = "Onyx" -> o [] c = "Sapphire" -> s [] c = "Emerald" -> e
          [] c = "Ruby" -> r [] c = "Diamond" -> d [] OTHER -> g]

\* card.cost().discounted_with(&developments).to_tokens(): per colour the raw
\* cost less the developments, floored at zero; no wildcard component
DiscountedWith(cost, devs) ==
    [c \in GemTypeAll |->
        IF c = Gold THEN 0
        ELSE IF cost[c] - devs[c] > 0 THEN cost[c] - devs[c] ELSE 0]

\* ------------------------------------------------------------ token_match
\* token_match with the wildcard branch taken whether or not a gold token is
\* left
RECURSIVE token_match_no_gold_check(_, _, _)
token_match_no_gold_check(cost, gems, running_payment) ==
    IF Total(cost) = 0 THEN {running_payment}
    ELSE IF Total(gems) = 0 THEN {}
    ELSE UNION {
        (IF gems[color] > 0
            THEN token_match_no_gold_check(
                    Sub(cost, One(color)), Sub(gems, One(color)),
                    Add(running_payment, One(color)))
            ELSE {})
        \cup
        token_match_no_gold_check(
            Sub(cost, One(color)), Sub(gems, One(Gold)),
            Add(running_payment, One(Gold)))
        : color \in {c \in GemTypeAll : cost[c] > 0} }

\* token_match with the wildcard branch in an else: gold is spent only on a
\* colour the player has run out of
RECURSIVE token_match_greedy(_, _, _)
token_match_greedy(cost, gems, running_payment) ==
    IF Total(cost) = 0 THEN {running_payment}
    ELSE IF Total(gems) = 0 THEN {}
    ELSE UNION {
        IF gems[color] > 0
            THEN token_match_greedy(
                    Sub(cost, One(color)), Sub(gems, One(color)),
                    Add(running_payment, One(color)))
            ELSE IF gems[Gold] > 0
                THEN token_match_greedy(
                        Sub(cost, One(color)), Sub(gems, One(Gold)),
                        Add(running_payment, One(Gold)))
                ELSE {}
        : color \in {c \in GemTypeAll : cost[c] > 0} }

\* token_match with its two early returns in the other order
RECURSIVE token_match_gems_first(_, _, _)
token_match_gems_first(cost, gems, running_payment) ==
    IF Total(gems) = 0 THEN {}
    ELSE IF Total(cost) = 0 THEN {running_payment}
    ELSE UNION {
        (IF gems[color] > 0
            THEN token_match_gems_first(
                    Sub(cost, One(color)), Sub(gems, One(color)),
                    Add(running_payment, One(color)))
            ELSE {})
        \cup
        (IF gems[Gold] > 0
            THEN token_match_gems_first(
                    Sub(cost, One(color)), Sub(gems, One(Gold)),
                    Add(running_payment, One(Gold)))
            ELSE {})
        : color \in {c \in GemTypeAll : cost[c] > 0} }

RECURSIVE token_match(_, _, _)
\* The set of payments that complete running_payment: one unit of an
\* outstanding colour is paid with a token of that colour or with a gold one.
\* (#[cached] memoises on the three arguments; the result is a function of
\* them alone.)
token_match(cost, gems, running_payment) ==
    IF Total(cost) = 0 THEN {running_payment}
    ELSE IF Total(gems) = 0 THEN {}
    ELSE UNION {
        (IF gems[color] > 0
            THEN token_match(Sub(cost, One(color)), Sub(gems, One(color)),
                             Add(running_payment, One(color)))
            ELSE {})
        \cup
        (IF gems[Gold] > 0
            THEN token_match(Sub(cost, One(color)), Sub(gems, One(Gold)),
                             Add(running_payment, One(Gold)))
            ELSE {})
        : color \in {c \in GemTypeAll : cost[c] > 0} }

\* total_deficit of payment_options_for: the loop over GemType::all()
RECURSIVE SumOver(_, _)
SumOver(f, S) ==
    IF S = {} THEN 0
    ELSE LET c == CHOOSE x \in S : TRUE IN f[c] + SumOver(f, S \ {c})

\* total_deficit keeping the largest deficit instead of adding them up
TotalDeficitLargest(cost, held) ==
    LET d == [c \in GemTypeAll |->
                IF cost[c] - held[c] > 0 THEN cost[c] - held[c] ELSE 0]
    IN  CHOOSE m \in {d[c] : c \in GemTypeAll} : \A c \in GemTypeAll : d[c] <= m

TotalDeficit(cost, held) ==
    SumOver([c \in GemTypeAll |->
                IF cost[c] - held[c] > 0 THEN cost[c] - held[c] ELSE 0],
            GemTypeAll)

\* Player::payment_options_for as a function of the card and the player's
\* developments and gems. branch names the return statement taken.
None(branch) == [some |-> FALSE, set |-> {}, branch |-> branch]
Some(set) == [some |-> TRUE, set |-> set, branch |-> "some"]

\* payment_options_for handing back the search's result as it is, without
\* the two None returns
payment_options_for_always_some(card, devs, held) ==
    Some(token_match(DiscountedWith(card.cost, devs), held, Empty))

payment_options_for(card, devs, held) ==
    LET cost == DiscountedWith(card.cost, devs)
        total_deficit == TotalDeficit(cost, held)
    IN  IF total_deficit > held[Gold] THEN None("deficit")
        ELSE LET payments == token_match(cost, held, Empty)
             IN  IF Cardinality(payments) = 0 THEN None("empty")
                 ELSE Some(payments)

\* ------------------------------------------------------------------ state
VARIABLES
    points,            \* Player.points: u8
    noble_points,      \* Player.noble_points: u8
    reserved,          \* Player.reserved: Vec<CardId>
    gems,              \* Player.gems: Tokens
    developments,      \* Player.developments: Tokens
    blind_reserved,    \* Player.blind_reserved: Vec<CardId>
    debug_build,       \* the build profile: debug_assert! and overflow checks on
    fault,             \* the last call panicked
    op,                \* the last call and its arguments
    before,            \* the player as it was when the last call was made
    card,              \* the card of the payment query
    result,            \* what payment_options_for returned
    matched            \* what token_match returned

vars ==
    << points, noble_points, reserved, gems, developments, blind_reserved,
       debug_build, fault, op, before, card, result, matched >>

\* the width of points and noble_points
U8 == 256

\* the player's fields as one value
Self ==
    [ points |-> points, noble_points |-> noble_points, reserved |-> reserved,
      gems |-> gems, developments |-> developments,
      blind_reserved |-> blind_reserved ]

\* Player::new()
New ==
    [ points |-> 0, noble_points |-> 0, reserved |-> << >>, gems |-> Empty,
      developments |-> Empty, blind_reserved |-> << >> ]

\* the outcome of a call: the player as the call left it, and whether it panicked
Ok(self) == [self |-> self, fault |-> FALSE]
Panic(self) == [self |-> self, fault |-> TRUE]

Range(seq) == {seq[i] : i \in 1..Len(seq)}
\* Vec::retain(|&x| x != id)
Retain(seq, id) == SelectSeq(seq, LAMBDA x : x # id)
\* Player::num_reserved
num_reserved(self) == Len(self.reserved)

\* Player::add_development
add_development(self, color) ==
    [self EXCEPT !.developments = Add(@, One(color))]

\* Player::add_gems
add_gems(self, t) == Ok([self EXCEPT !.gems = Add(@, t)])

\* Player::remove_gems: the subtraction, with no check of the outcome
remove_gems(self, t) == Ok([self EXCEPT !.gems = Sub(@, t)])

\* Player::add_points: u8 addition, which panics on overflow in a debug build
\* and wraps in a release build
add_points(self, n, dbg) ==
    IF self.points + n >= U8
        THEN IF dbg THEN Panic(self)
             ELSE Ok([self EXCEPT !.points = (@ + n) % U8])
        ELSE Ok([self EXCEPT !.points = @ + n])

\* Player::reserve_card: the debug_assert! is compiled out of a release build
reserve_card(self, card_id, dbg) ==
    IF dbg /\ ~(Len(self.reserved) < 3) THEN Panic(self)
    ELSE Ok([self EXCEPT !.reserved = Append(@, card_id)])

\* Player::blind_reserve_card
blind_reserve_card(self, card_id, dbg) ==
    IF dbg /\ ~(Len(self.reserved) < 3) THEN Panic(self)
    ELSE Ok([self EXCEPT !.reserved = Append(@, card_id),
                         !.blind_reserved = Append(@, card_id)])

\* Vec::remove of the first position holding the id, instead of retain
RemoveFirst(seq, id) ==
    IF \E i \in 1..Len(seq) : seq[i] = id
        THEN LET k == CHOOSE i \in 1..Len(seq) :
                        seq[i] = id /\ \A j \in 1..(i - 1) : seq[j] # id
             IN  SubSeq(seq, 1, k - 1) \o SubSeq(seq, k + 1, Len(seq))
        ELSE seq

\* purchase_card taking the card out of the lists with Vec::remove
purchase_card_remove_first(self, c, payment, dbg) ==
    IF dbg /\ ~Legal(payment) THEN Panic(self)
    ELSE LET s1 == [self EXCEPT !.gems = Sub(@, payment)]
         IN  IF dbg /\ ~Legal(s1.gems) THEN Panic(s1)
             ELSE LET s2 == add_development(s1, c.gem)
                      a == add_points(s2, c.points, dbg)
                  IN  IF a.fault THEN a
                      ELSE Ok([a.self EXCEPT
                                 !.reserved = RemoveFirst(@, c.id),
                                 !.blind_reserved = RemoveFirst(@, c.id)])

\* purchase_card without the retain on blind_reserved
purchase_card_keep_blind(self, c, payment, dbg) ==
    IF dbg /\ ~Legal(payment) THEN Panic(self)
    ELSE LET s1 == [self EXCEPT !.gems = Sub(@, payment)]
         IN  IF dbg /\ ~Legal(s1.gems) THEN Panic(s1)
             ELSE LET s2 == add_development(s1, c.gem)
                      a == add_points(s2, c.points, dbg)
                  IN  IF a.fault THEN a
                      ELSE Ok([a.self EXCEPT !.reserved = Retain(@, c.id)])

\* Player::purchase_card, statement by statement
purchase_card(self, c, payment, dbg) ==
    IF dbg /\ ~Legal(payment) THEN Panic(self)
    ELSE LET s1 == [self EXCEPT !.gems = Sub(@, payment)]
         IN  IF dbg /\ ~Legal(s1.gems) THEN Panic(s1)
             ELSE LET s2 == add_development(s1, c.gem)
                      a == add_points(s2, c.points, dbg)
                  IN  IF a.fault THEN a
                      ELSE Ok([a.self EXCEPT
                                 !.reserved = Retain(@, c.id),
                                 !.blind_reserved = Retain(@, c.id)])

\* ----------------------------------------------------------------- inputs
\* bounds of the player runs
\* the longest reserved list a release build is driven to
MaxReserved == 4
\* the number of purchases of a run
MaxPurchases == 2
\* the most tokens, held and overdrawn together, a run leaves the player with
MaxTokens == 2
\* the longest reserved list a purchase is tried on
MaxDrawn == 2

NoCard == [id |-> 0, gem |-> "Onyx", points |-> 0, cost |-> Empty]
NoResult == [some |-> FALSE, set |-> {}, branch |-> "none"]

\* the cards of the player runs: an id, the colour of the development and the
\* points (the cost plays no part in purchase_card)
Catalog ==
    { [id |-> 1, gem |-> "Ruby", points |-> 0, cost |-> One("Ruby")],
      [id |-> 2, gem |-> "Emerald", points |-> 1, cost |-> One("Emerald")] }
CardIds == {c.id : c \in Catalog}
\* the vectors handed to add_gems and remove_gems
GemInputs == {One(c) : c \in GemTypeAll}
\* the payments handed to purchase_card
PaymentInputs == {Empty} \cup GemInputs
\* the players a purchase is tried on: the points (a u8), the noble points,
\* the reserved cards, each blind or not, and the gems
PointInputs == {0, 3, 255}
NobleInputs == {0, 3}
FlaggedLists == UNION {[1..n -> CardIds \X BOOLEAN] : n \in 0..MaxDrawn}
Ids(f) == [i \in 1..Len(f) |-> f[i][1]]
BlindIds(f) == Ids(SelectSeq(f, LAMBDA e : e[2]))
DrawnGems == {t \in [GemTypeAll -> 0..1] : Total(t) <= MaxTokens}
PurchasePayments == PaymentInputs \cup {Add(One("Ruby"), One(Gold))}

\* the inputs of the payment query
CostInputs ==
    {t \in [GemTypeAll -> 0..MaxCost] : t[Gold] = 0 /\ Total(t) <= MaxCost}
DevInputs ==
    {[c \in GemTypeAll |-> IF c = d THEN k ELSE 0] :
        d \in Colors, k \in 0..MaxDev}
HeldInputs == {t \in [GemTypeAll -> 0..MaxGems] : Total(t) <= MaxGems}
QueryCards ==
    {[id |-> 1, gem |-> "Ruby", points |-> 0, cost |-> k] : k \in CostInputs}

\* ---------------------------------------------------------------- actions
Call(name, c, t, n) == [name |-> name, card |-> c, tokens |-> t, n |-> n]

\* a call of a mutating method: the player becomes what the call left
Step(call, out) ==
    /\ ~fault
    /\ points' = out.self.points
    /\ noble_points' = out.self.noble_points
    /\ reserved' = out.self.reserved
    /\ gems' = out.self.gems
    /\ developments' = out.self.developments
    /\ blind_reserved' = out.self.blind_reserved
    /\ fault' = out.fault
    /\ op' = call
    /\ before' = Self
    /\ UNCHANGED << debug_build, card, result, matched >>

\* the tokens of a vector, an overdrawn counter counted by its depth
Volume(t) == Total([c \in GemTypeAll |-> IF t[c] < 0 THEN -t[c] ELSE t[c]])

AddGems(t) ==
    /\ Volume(Add(gems, t)) <= MaxTokens
    /\ Step(Call("add_gems", NoCard, t, 0), add_gems(Self, t))

RemoveGems(t) ==
    /\ Volume(Sub(gems, t)) <= MaxTokens
    /\ Step(Call("remove_gems", NoCard, t, 0), remove_gems(Self, t))

ReserveCard(id) ==
    /\ Len(reserved) < MaxReserved
    /\ Step(Call("reserve_card", NoCard, Empty, id),
            reserve_card(Self, id, debug_build))

BlindReserveCard(id) ==
    /\ Len(reserved) < MaxReserved
    /\ Step(Call("blind_reserve_card", NoCard, Empty, id),
            blind_reserve_card(Self, id, debug_build))

PurchaseCard(c, payment) ==
    /\ Total(developments) < MaxPurchases
    /\ Volume(Sub(gems, payment)) <= MaxTokens
    /\ Step(Call("purchase_card", c, payment, 0),
            purchase_card(Self, c, payment, debug_build))

\* the payment query on the player at hand
PaymentOptionsFor ==
    /\ result = NoResult /\ matched = NoResult
    /\ result' = payment_options_for(card, developments, gems)
    /\ op' = Call("payment_options_for", card, Empty, 0)
    /\ UNCHANGED << points, noble_points, reserved, gems, developments,
                    blind_reserved, debug_build, fault, before, card, matched >>

\* token_match on the effective cost and the gems, as payment_options_for
\* calls it
TokenMatch ==
    /\ result = NoResult /\ matched = NoResult
    /\ matched' = Some(token_match(DiscountedWith(card.cost, developments),
                                   gems, Empty))
    /\ op' = Call("token_match", card, Empty, 0)
    /\ UNCHANGED << points, noble_points, reserved, gems, developments,
                    blind_reserved, debug_build, fault, before, card, result >>

\* ---------------------------------------------------------- specifications
\* a fresh player, in either build
Init ==
    /\ points = New.points
    /\ noble_points = New.noble_points
    /\ reserved = New.reserved
    /\ gems = New.gems
    /\ developments = New.developments
    /\ blind_reserved = New.blind_reserved
    /\ debug_build \in BOOLEAN
    /\ fault = FALSE
    /\ op = Call("new", NoCard, Empty, 0)
    /\ before = New
    /\ card = NoCard
    /\ result = NoResult
    /\ matched = NoResult

\* reservations and purchases
NextReserve ==
    \/ \E id \in CardIds : ReserveCard(id)
    \/ \E id \in CardIds : BlindReserveCard(id)
    \/ \E c \in Catalog : PurchaseCard(c, Empty)

SpecReserve == Init /\ [][NextReserve]_vars

\* gems handed over, taken back and spent
NextGems ==
    \/ \E t \in GemInputs : AddGems(t)
    \/ \E t \in GemInputs : RemoveGems(t)
    \/ \E c \in Catalog, t \in PaymentInputs : PurchaseCard(c, t)

SpecGems == Init /\ [][NextGems]_vars

\* one purchase by a player drawn from the players above
InitPurchase ==
    /\ points \in PointInputs
    /\ noble_points \in NobleInputs
    /\ \E f \in FlaggedLists :
            reserved = Ids(f) /\ blind_reserved = BlindIds(f)
    /\ gems \in DrawnGems
    /\ developments = New.developments
    /\ debug_build \in BOOLEAN
    /\ fault = FALSE
    /\ op = Call("drawn", NoCard, Empty, 0)
    /\ before = New
    /\ card = NoCard
    /\ result = NoResult
    /\ matched = NoResult

NextPurchase ==
    \E c \in Catalog, t \in PurchasePayments :
        op.name = "drawn" /\ PurchaseCard(c, t)

SpecPurchase == InitPurchase /\ [][NextPurchase]_vars

\* the payment query of a player with the developments and gems drawn
InitPay ==
    /\ points = New.points
    /\ noble_points = New.noble_points
    /\ reserved = New.reserved
    /\ gems \in HeldInputs
    /\ developments \in DevInputs
    /\ blind_reserved = New.blind_reserved
    /\ debug_build = FALSE    \* the query is the same code in both builds
    /\ fault = FALSE
    /\ op = Call("drawn", NoCard, Empty, 0)
    /\ before = New
    /\ card \in QueryCards
    /\ result = NoResult
    /\ matched = NoResult

NextPay ==
    \/ PaymentOptionsFor
    \/ TokenMatch

SpecPay == InitPay /\ [][NextPay]_vars

\* ------------------------------------------------- the payment query, claims
\* the effective cost of the card of the query
EffectiveCost == DiscountedWith(card.cost, developments)
\* the shortfall of the held gems against a cost, summed over the colours
Shortfall(cost, held) ==
    LET d(c) == IF cost[c] - held[c] > 0 THEN cost[c] - held[c] ELSE 0
    IN  d("Onyx") + d("Sapphire") + d("Emerald") + d("Ruby") + d("Diamond")
\* what a payment takes in the five colours
Coloured(p) ==
    p["Onyx"] + p["Sapphire"] + p["Emerald"] + p["Ruby"] + p["Diamond"]
Min(a, b) == IF a < b THEN a ELSE b
\* every cover of a cost by the held gems: per colour at most the cost and at
\* most what is held, the remainder in gold, no more gold than is held
Covers(cost, held) ==
    LET m(c) == Min(cost[c], held[c])
        need == Coloured(cost)
    IN  { Mk(u[1], u[2], u[3], u[4], u[5], need - (u[1] + u[2] + u[3] + u[4] + u[5])) :
            u \in { v \in (0..m("Onyx")) \X (0..m("Sapphire")) \X (0..m("Emerald"))
                          \X (0..m("Ruby")) \X (0..m("Diamond")) :
                    need - (v[1] + v[2] + v[3] + v[4] + v[5]) <= held[Gold] } }
Queried == op.name = "payment_options_for"
Matched == op.name = "token_match"

\* C1: every payment payment_options_for returns leaves the held gems legal,
\* takes in each colour between nothing and the effective cost, and takes in
\* gold exactly what the colours leave uncovered, so that its total is the
\* total of the effective cost.
C1_PaymentsSound ==
    (Queried /\ result.some) =>
        \A p \in result.set :
            /\ Legal(Sub(gems, p))
            /\ \A c \in Colors : 0 <= p[c] /\ p[c] <= EffectiveCost[c]
            /\ p[Gold] = Coloured(EffectiveCost) - Coloured(p)
            /\ Total(p) = Total(EffectiveCost)
\* a discounted card paid partly in its colour and partly in gold
C1_Witness ==
    /\ Queried /\ result.some
    /\ EffectiveCost # card.cost
    /\ \E p \in result.set : p[Gold] > 0 /\ Coloured(p) > 0

\* C2: token_match on an effective cost and a gems vector returns exactly the
\* covers of the cost: nothing missing, nothing else.
C2_MatchIsAllCovers ==
    Matched => matched.set = Covers(EffectiveCost, gems)
\* a cost with at least three distinct covers, one of them without gold
C2_Witness ==
    /\ Matched
    /\ Cardinality(matched.set) >= 3
    /\ \E p \in matched.set : p[Gold] = 0
    /\ \E p \in matched.set : p[Gold] = 2

\* C3: a shortfall larger than the gold held makes payment_options_for return
\* None.
C3_FastReject ==
    (Queried /\ Shortfall(EffectiveCost, gems) > gems[Gold]) => ~result.some
\* one gold against a shortfall of two
C3_Witness ==
    /\ Queried
    /\ gems[Gold] = 1
    /\ Shortfall(EffectiveCost, gems) = 2
    /\ ~result.some
\* no gold and a shortfall
C3_WitnessNoGold ==
    /\ Queried
    /\ gems[Gold] = 0
    /\ Shortfall(EffectiveCost, gems) > 0
    /\ ~result.some

\* C4: a card whose effective cost is zero has exactly one payment, the empty
\* one, whatever the player holds.
C4_FreeCard ==
    (Queried /\ Total(EffectiveCost) = 0) => result = Some({Empty})
\* a card made free by the developments, asked of a player with no gems
C4_Witness ==
    /\ Queried
    /\ Total(card.cost) > 0
    /\ Total(EffectiveCost) = 0
    /\ Total(gems) = 0
    /\ result = Some({Empty})
\* a free card asked of a player with gems and gold to spare
C4_WitnessSurplus ==
    /\ Queried
    /\ Total(EffectiveCost) = 0
    /\ gems[Gold] > 0 /\ Coloured(gems) > 0
    /\ result = Some({Empty})

\* C10: when the shortfall is at most the gold held, token_match finds a
\* payment; payment_options_for returns None exactly when the shortfall
\* exceeds the gold, and never by the empty-search return.
C10_SearchNeverEmpty ==
    /\ (Matched /\ Shortfall(EffectiveCost, gems) <= gems[Gold]) =>
            matched.set # {}
    /\ Queried =>
            /\ ~result.some <=> Shortfall(EffectiveCost, gems) > gems[Gold]
            /\ result.branch # "empty"
\* a shortfall covered by gold to the last token
C10_Witness ==
    /\ Queried
    /\ Shortfall(EffectiveCost, gems) = 2
    /\ gems[Gold] = 2
    /\ result.some

\* ------------------------------------------------------ the player, claims
Purchased == op.name = "purchase_card"
Reserving == op.name \in {"reserve_card", "blind_reserve_card"}
\* a sequence without the occurrences of an id, the others in their order
RECURSIVE Without(_, _)
Without(seq, id) ==
    IF seq = << >> THEN << >>
    ELSE IF Head(seq) = id THEN Without(Tail(seq), id)
         ELSE << Head(seq) >> \o Without(Tail(seq), id)
\* the payment of the last purchase was legal and within the gems held
PaidWithinMeans == Legal(op.tokens) /\ Legal(Sub(before.gems, op.tokens))
\* what purchase_card is said to do to everything but the points
C5_OtherEffects ==
    /\ gems = Sub(before.gems, op.tokens)
    /\ developments =
          [before.developments EXCEPT ![op.card.gem] = @ + 1]
    /\ reserved = Without(before.reserved, op.card.id)
    /\ blind_reserved = Without(before.blind_reserved, op.card.id)
    /\ noble_points = before.noble_points
    /\ (op.card.id \notin Range(before.reserved) \cup Range(before.blind_reserved))
          => reserved = before.reserved /\ blind_reserved = before.blind_reserved

\* C5 as stated: a purchase paid within the player's means takes the payment
\* from the gems, adds one development of the card's colour, adds the card's
\* points to the points, takes the card out of both reservation lists, leaves
\* the noble points alone and does not fail.
C5_PurchaseEffect ==
    (Purchased /\ PaidWithinMeans) =>
        /\ ~fault
        /\ C5_OtherEffects
        /\ points = before.points + op.card.points

\* C5 as amended: the same while points + card.points() fits the u8; beyond
\* it a release build wraps the points modulo 256, the other effects as
\* stated, and a debug build panics at the addition, the gems and the
\* developments changed, the points and the lists not.
C5_PurchaseEffectU8 ==
    (Purchased /\ PaidWithinMeans) =>
        IF before.points + op.card.points < U8
            THEN /\ ~fault
                 /\ C5_OtherEffects
                 /\ points = before.points + op.card.points
        ELSE IF debug_build
            THEN /\ fault
                 /\ gems = Sub(before.gems, op.tokens)
                 /\ developments =
                       [before.developments EXCEPT ![op.card.gem] = @ + 1]
                 /\ points = before.points
                 /\ reserved = before.reserved
                 /\ blind_reserved = before.blind_reserved
                 /\ noble_points = before.noble_points
        ELSE     /\ ~fault
                 /\ C5_OtherEffects
                 /\ points = (before.points + op.card.points) % U8
\* a card reserved twice, once blind, bought with a gold token by a player
\* who had noble points
C5_Witness ==
    /\ Purchased /\ PaidWithinMeans /\ ~fault
    /\ op.tokens[Gold] = 1
    /\ Len(before.reserved) = 2 /\ Len(reserved) = 0
    /\ Len(before.blind_reserved) = 1
    /\ before.noble_points = 3
    /\ points = before.points + 1
\* a card in neither list, bought
C5_WitnessAbsent ==
    /\ Purchased /\ PaidWithinMeans /\ ~fault
    /\ op.card.id \notin Range(before.reserved)
    /\ Len(before.blind_reserved) = 1 /\ Len(reserved) = 2

\* C6: at most three cards are reserved; an accepted reservation adds exactly
\* one; a reservation tried with three cards reserved is a fault and adds none.
C6_ReservationCap ==
    /\ Len(reserved) <= 3
    /\ (Reserving /\ ~fault) => Len(reserved) = Len(before.reserved) + 1
    /\ (Reserving /\ Len(before.reserved) >= 3) =>
            fault /\ reserved = before.reserved

\* C7: every blind reservation is a reservation.
C7_BlindSubset == Range(blind_reserved) \subseteq Range(reserved)
\* a blind reserved card bought while another stays blind reserved
C7_Witness ==
    /\ Purchased /\ ~fault
    /\ op.card.id \in Range(before.blind_reserved)
    /\ blind_reserved # << >>
    /\ Len(reserved) > Len(blind_reserved)

\* C8: no card id is reserved twice.
C8_NoDuplicate ==
    \A i, j \in 1..Len(reserved) : i # j => reserved[i] # reserved[j]

\* C9: the gems are legal after every call that returned, and a remove_gems
\* or purchase_card that takes more than is held is a fault.
C9_GemsLegal ==
    /\ ~fault => Legal(gems)
    /\ (op.name \in {"remove_gems", "purchase_card"}
            /\ ~Legal(Sub(before.gems, op.tokens))) => fault

====
